---- MODULE Spec2Model ----
(***************************************************************************)
(* HAL response assembly of actix-response: Link / Links (hal/links.rs),   *)
(* the HalRespondable builder, the Headers wrapper and the IntoHal         *)
(* orchestration (hal/response.rs).                                        *)
(*                                                                         *)
(* Strings that the code orders or validates byte by byte (relation names, *)
(* header values) are sequences of byte codes; opaque strings (hrefs,      *)
(* payloads, header names) are TLA+ strings.                               *)
(***************************************************************************)
EXTENDS Integers, Sequences, FiniteSets, TLC

(* ------------------------------ bounds --------------------------------- *)
\* with_header_value / with_header / with_link calls made on a directly used
\* builder
MaxCalls == 3
\* operations the headers hook performs on its sink
MaxSinkOps == 2
\* length of the sequence a resource's links() hook returns
MaxResourceLinks == 2
\* length of a Links::Multiple handed to push
MaxPushLen == 3

(* --------------------------- input universes --------------------------- *)
\* relation names "A", "a", "ab" as byte strings
RelNames == { <<65>>, <<97>>, <<97, 98>> }
Payloads == { "P1", "P2" }
\* StatusCode::OK
OK == 200
StatusCodes == { OK, 201 }
\* header::CONTENT_TYPE and one more header name
CONTENT_TYPE == "content-type"
HeaderNames == { CONTENT_TYPE, "x-trace" }
\* "application/hal+json"
APPLICATION_HAL_JSON ==
  << 97, 112, 112, 108, 105, 99, 97, 116, 105, 111, 110, 47,
     104, 97, 108, 43, 106, 115, 111, 110 >>
\* "abc", "x\ty" (valid header values) and "a\nb" (rejected: line feed)
ValidRawValues == { <<97, 98, 99>>, <<120, 9, 121>> }
InvalidRawValues == { <<97, 10, 98>> }
RawValues == ValidRawValues \cup InvalidRawValues
\* typed headers (H: Header + IntoHeaderValue): H::name() and the bytes the
\* header renders to
TypedHeaders ==
  { [name |-> CONTENT_TYPE, raw |-> <<120, 9, 121>>],
    [name |-> "x-trace",    raw |-> <<97, 10, 98>>] }

(* ------------------------------ Link / Links --------------------------- *)
\* Option<String>: <<>> is None, <<s>> is Some(s)
None == <<>>
Some(x) == <<x>>

Link(href, name) == [href |-> href, name |-> name]

\* impl From<S> for Link
from(href) == Link(href, None)

LinkValues == { from("/a"), Link("/b", Some("first")) }

Single(link) == [tag |-> "Single", links |-> <<link>>]
Multiple(links) == [tag |-> "Multiple", links |-> links]

\* a push that puts the new link first
push_prepending(self, new) ==
  IF self.tag = "Single"
    THEN Multiple(<<self.links[1], new>>)
    ELSE Multiple(<<new>> \o self.links)

\* Links::push
push(self, new) ==
  IF self.tag = "Single"
    THEN Multiple(<<self.links[1], new>>)
    ELSE Multiple(Append(self.links, new))

(* --------------------- BTreeMap<String, Links> ------------------------- *)
\* Ord for String: bytewise lexicographic
RECURSIVE StrLess(_, _)
StrLess(a, b) ==
  IF b = <<>> THEN FALSE
  ELSE IF a = <<>> THEN TRUE
  ELSE IF Head(a) # Head(b) THEN Head(a) < Head(b)
  ELSE StrLess(Tail(a), Tail(b))

\* the map is the sequence of its entries in key order
BTreeNew == <<>>

Entry(key, value) == [key |-> key, value |-> value]

\* BTreeMap::get as Option
BTreeGet(map, key) ==
  LET hit == SelectSeq(map, LAMBDA e : e.key = key)
  IN  IF hit = <<>> THEN None ELSE Some(hit[1].value)

\* BTreeMap::remove: the map without the key (BTreeGet is what it returns)
BTreeRemove(map, key) == SelectSeq(map, LAMBDA e : e.key # key)

\* a map that keeps insertion order instead of key order
InsertLast(map, key, value) ==
  SelectSeq(map, LAMBDA e : e.key # key) \o <<Entry(key, value)>>

\* BTreeMap::insert
BTreeInsert(map, key, value) ==
  SelectSeq(map, LAMBDA e : StrLess(e.key, key))
    \o <<Entry(key, value)>>
    \o SelectSeq(map, LAMBDA e : StrLess(key, e.key))

\* a with_link that overwrites the relation's entry
with_link_overwriting(links, name, link) ==
  BTreeInsert(BTreeRemove(links, name), name, Single(link))

\* HalRespondable::with_link, on the relation map
with_link(links, name, link) ==
  LET removed == BTreeGet(links, name)
      rest    == BTreeRemove(links, name)
      merged  == IF removed = None
                   THEN Single(link)
                   ELSE push(removed[1], link)
  IN  BTreeInsert(rest, name, merged)

(* ------------------------------ HeaderMap ------------------------------ *)
\* HeaderMap: the values stored under each name, in the order appended
\* (<<>> when the name is absent)
HeaderMapNew == [n \in HeaderNames |-> <<>>]

\* HeaderMap::append
append(map, name, value) == [map EXCEPT ![name] = Append(@, value)]

\* HeaderMap::insert (replaces what the name held)
insert(map, name, value) == [map EXCEPT ![name] = <<value>>]

\* HeaderMap::remove
remove(map, name) == [map EXCEPT ![name] = <<>>]

\* IntoHeaderValue::try_into_value: control bytes other than tab are rejected
try_into_value(raw) ==
  IF \A i \in 1..Len(raw) : (raw[i] >= 32 /\ raw[i] # 127) \/ raw[i] = 9
    THEN [ok |-> TRUE, value |-> raw]
    ELSE [ok |-> FALSE, value |-> <<>>]

\* a with_header_value that replaces the name's values
with_header_value_replacing(map, name, raw) ==
  LET value == try_into_value(raw)
  IN  IF value.ok
        THEN [panic |-> FALSE, map |-> insert(map, name, value.value)]
        ELSE [panic |-> TRUE, map |-> map]

\* a with_header_value that skips a value it cannot convert
with_header_value_skipping(map, name, raw) ==
  LET value == try_into_value(raw)
  IN  IF value.ok
        THEN [panic |-> FALSE, map |-> append(map, name, value.value)]
        ELSE [panic |-> FALSE, map |-> map]

\* Headers::with_header_value: .ok().unwrap() panics on a failed conversion
with_header_value(map, name, raw) ==
  LET value == try_into_value(raw)
  IN  IF value.ok
        THEN [panic |-> FALSE, map |-> append(map, name, value.value)]
        ELSE [panic |-> TRUE, map |-> map]

\* Headers::with_header
with_header(map, header) == with_header_value(map, header.name, header.raw)

TotalValues(map) ==
  LET RECURSIVE Sum(_)
      Sum(S) == IF S = {} THEN 0
                ELSE LET n == CHOOSE x \in S : TRUE
                     IN  Len(map[n]) + Sum(S \ {n})
  IN  Sum(DOMAIN map)

(* ------------------------------- state --------------------------------- *)
VARIABLES
  pc,            \* where the caller is: a directly used builder ("building",
                 \* "finalized"), a statement of into_hal, or "panicked"
  payload,       \* HalRespondable.payload
  status_code,   \* HalRespondable.status_code
  headers,       \* HalRespondable.headers
  links,         \* HalRespondable.links
  hal_payload,   \* what body() returned
  sink,          \* into_hal: `headers`, the Headers handed to the headers hook
  sink_ops,      \* operations the headers hook has performed on the sink
  status_local,  \* into_hal: `status_code`
  links_local,   \* into_hal: `links`, what the links hook returned
  links_iter,    \* into_hal: what the loop over `links` has not consumed yet
  payload_local, \* into_hal: `payload`
  header_iter,   \* into_hal: what headers.iter() has not yielded yet
  hookLog,       \* the resource's hooks in the order into_hal invoked them
  declared,      \* the (name, link) pairs passed to with_link so far
  lastOp,        \* the last operation performed, its arguments and outcome
  acc            \* a Links value that push is applied to (SpecPush)

vars == << pc, payload, status_code, headers, links, hal_payload, sink,
           sink_ops, status_local, links_local, links_iter, payload_local,
           header_iter, hookLog, declared, lastOp, acc >>

builder == << payload, status_code, headers, links >>
locals == << sink, sink_ops, status_local, links_local, links_iter,
             payload_local, header_iter, hookLog >>

Op(op, args, ret) == [op |-> op, args |-> args, ret |-> ret]

\* placeholders for what does not exist yet
NoPayload == "none"
NoStatus == 0
NoBody == [links |-> BTreeNew, payload |-> NoPayload]

\* a constructor that forgets the default header
new_without_content_type(p) ==
  [payload |-> p, status_code |-> OK, headers |-> HeaderMapNew,
   links |-> BTreeNew]

\* HalRespondable::new
new(p) ==
  [payload |-> p, status_code |-> OK,
   headers |-> append(HeaderMapNew, CONTENT_TYPE, APPLICATION_HAL_JSON),
   links |-> BTreeNew]

\* the builder exists and has not been consumed
Built ==
  pc \in { "building", "with_status_code", "for_headers", "for_links", "done" }

Calls == Len(declared) + TotalValues(headers) - 1

(* ----------------------- builder operations ---------------------------- *)
\* a with_status_code that does not store the code
SetStatusCodeIgnored(code) ==
  /\ status_code' = status_code
  /\ lastOp' = Op("with_status_code", <<code>>, "ok")
  /\ UNCHANGED << payload, headers, links, declared >>

\* HalRespondable::with_status_code
SetStatusCode(code) ==
  /\ status_code' = code
  /\ lastOp' = Op("with_status_code", <<code>>, "ok")
  /\ UNCHANGED << payload, headers, links, declared >>

\* HalRespondable::with_header_value; `op` names the entry point
AddHeaderValue(op, name, raw) ==
  LET r == with_header_value(headers, name, raw)
  IN  /\ headers' = r.map
      /\ pc' = IF r.panic THEN "panicked" ELSE pc
      /\ lastOp' = Op(op, <<name, raw>>, IF r.panic THEN "panic" ELSE "ok")
      /\ UNCHANGED << payload, status_code, links, declared >>

\* HalRespondable::with_link
AddLink(name, link) ==
  /\ links' = with_link(links, name, link)
  /\ declared' = Append(declared, <<name, link>>)
  /\ lastOp' = Op("with_link", <<name, link>>, "ok")
  /\ UNCHANGED << payload, status_code, headers >>

(* ---------------------- a directly used builder ------------------------ *)
InitDirect ==
  /\ pc = "building"
  /\ \E p \in Payloads :
       /\ payload = new(p).payload
       /\ status_code = new(p).status_code
       /\ headers = new(p).headers
       /\ links = new(p).links
       /\ lastOp = Op("new", <<p>>, "ok")
  /\ hal_payload = NoBody
  /\ sink = HeaderMapNew
  /\ sink_ops = 0
  /\ status_local = NoStatus
  /\ links_local = <<>>
  /\ links_iter = <<>>
  /\ payload_local = NoPayload
  /\ header_iter = <<>>
  /\ hookLog = <<>>
  /\ declared = <<>>
  /\ acc = Single(from("/a"))

WithStatusCode ==
  /\ pc = "building"
  /\ \E code \in StatusCodes : SetStatusCode(code)
  /\ UNCHANGED << pc, hal_payload, locals, acc >>

WithHeaderValue ==
  /\ pc = "building"
  /\ Calls < MaxCalls
  /\ \E name \in HeaderNames, raw \in RawValues :
       AddHeaderValue("with_header_value", name, raw)
  /\ UNCHANGED << hal_payload, locals, acc >>

WithHeader ==
  /\ pc = "building"
  /\ Calls < MaxCalls
  /\ \E header \in TypedHeaders :
       AddHeaderValue("with_header", header.name, header.raw)
  /\ UNCHANGED << hal_payload, locals, acc >>

WithLink ==
  /\ pc = "building"
  /\ Calls < MaxCalls
  /\ \E name \in RelNames, link \in LinkValues : AddLink(name, link)
  /\ UNCHANGED << pc, hal_payload, locals, acc >>

\* Respondable::status_code
StatusCode ==
  /\ pc = "building"
  /\ lastOp' = Op("status_code", <<>>, status_code)
  /\ UNCHANGED << pc, builder, hal_payload, locals, declared, acc >>

\* Respondable::headers
Headers ==
  /\ pc = "building"
  /\ lastOp' = Op("headers", <<>>, headers)
  /\ UNCHANGED << pc, builder, hal_payload, locals, declared, acc >>

\* a body() that leaves the links out
body_without_links == [links |-> BTreeNew, payload |-> payload]

\* Respondable::body
body == [links |-> links, payload |-> payload]

Body ==
  /\ pc = "building"
  /\ hal_payload' = body
  /\ pc' = "finalized"
  /\ lastOp' = Op("body", <<>>, "ok")
  /\ UNCHANGED << builder, locals, declared, acc >>

(* ------------------------------ into_hal ------------------------------- *)
\* the state before into_hal runs: no builder yet
InitIntoHal ==
  /\ pc = "headers"
  /\ payload = NoPayload
  /\ status_code = NoStatus
  /\ headers = HeaderMapNew
  /\ links = BTreeNew
  /\ hal_payload = NoBody
  /\ sink = HeaderMapNew
  /\ sink_ops = 0
  /\ status_local = NoStatus
  /\ links_local = <<>>
  /\ links_iter = <<>>
  /\ payload_local = NoPayload
  /\ header_iter = <<>>
  /\ hookLog = <<>>
  /\ declared = <<>>
  /\ lastOp = Op("into_hal", <<>>, "ok")
  /\ acc = Single(from("/a"))

\* sequences over S of length at most n
RECURSIVE SeqsUpTo(_, _)
SeqsUpTo(S, n) ==
  IF n = 0 THEN { <<>> }
  ELSE LET shorter == SeqsUpTo(S, n - 1)
       IN  shorter \cup { Append(q, x) : q \in shorter, x \in S }

\* what a links() hook can return
LinkLists == SeqsUpTo(RelNames \X LinkValues, MaxResourceLinks)

\* lines 148-149: a fresh sink, and the headers hook is entered
IntoHalHeaders ==
  /\ pc = "headers"
  /\ sink' = HeaderMapNew
  /\ hookLog' = Append(hookLog, "headers")
  /\ pc' = "in_headers"
  /\ lastOp' = Op("headers_hook", <<>>, "ok")
  /\ UNCHANGED << builder, hal_payload, sink_ops, status_local, links_local, links_iter,
                  payload_local, header_iter, declared, acc >>

HookFrame ==
  /\ sink_ops' = sink_ops + 1
  /\ UNCHANGED << builder, hal_payload, status_local, links_local, links_iter,
                  payload_local, header_iter, hookLog, declared, acc >>

\* the hook calls Headers::with_header_value on the sink
HookWithHeaderValue ==
  /\ pc = "in_headers"
  /\ sink_ops < MaxSinkOps
  /\ \E name \in HeaderNames, raw \in RawValues :
       LET r == with_header_value(sink, name, raw)
       IN  /\ sink' = r.map
           /\ pc' = IF r.panic THEN "panicked" ELSE pc
           /\ lastOp' = Op("sink.with_header_value", <<name, raw>>,
                           IF r.panic THEN "panic" ELSE "ok")
  /\ HookFrame

\* the hook calls Headers::with_header on the sink
HookWithHeader ==
  /\ pc = "in_headers"
  /\ sink_ops < MaxSinkOps
  /\ \E header \in TypedHeaders :
       LET r == with_header(sink, header)
       IN  /\ sink' = r.map
           /\ pc' = IF r.panic THEN "panicked" ELSE pc
           /\ lastOp' = Op("sink.with_header", <<header.name, header.raw>>,
                           IF r.panic THEN "panic" ELSE "ok")
  /\ HookFrame

\* through DerefMut the hook reaches HeaderMap::append
HookAppend ==
  /\ pc = "in_headers"
  /\ sink_ops < MaxSinkOps
  /\ \E name \in HeaderNames, value \in ValidRawValues :
       /\ sink' = append(sink, name, value)
       /\ lastOp' = Op("sink.append", <<name, value>>, "ok")
  /\ HookFrame
  /\ UNCHANGED pc

\* ... HeaderMap::insert
HookInsert ==
  /\ pc = "in_headers"
  /\ sink_ops < MaxSinkOps
  /\ \E name \in HeaderNames, value \in ValidRawValues :
       /\ sink' = insert(sink, name, value)
       /\ lastOp' = Op("sink.insert", <<name, value>>, "ok")
  /\ HookFrame
  /\ UNCHANGED pc

\* ... and HeaderMap::remove
HookRemove ==
  /\ pc = "in_headers"
  /\ sink_ops < MaxSinkOps
  /\ \E name \in HeaderNames :
       /\ sink' = remove(sink, name)
       /\ lastOp' = Op("sink.remove", <<name>>, "ok")
  /\ HookFrame
  /\ UNCHANGED pc

\* the headers hook returns
HookReturn ==
  /\ pc = "in_headers"
  /\ pc' = "status_code"
  /\ lastOp' = Op("headers_hook_return", <<>>, "ok")
  /\ UNCHANGED << builder, hal_payload, locals, declared, acc >>

\* line 151: let status_code = self.status_code()
IntoHalStatusCode ==
  /\ pc = "status_code"
  /\ \E code \in StatusCodes :
       /\ status_local' = code
       /\ lastOp' = Op("status_code_hook", <<>>, code)
  /\ hookLog' = Append(hookLog, "status_code")
  /\ pc' = "links"
  /\ UNCHANGED << builder, hal_payload, sink, sink_ops, links_local, links_iter,
                  payload_local, header_iter, declared, acc >>

\* line 152: let links = self.links()
IntoHalLinks ==
  /\ pc = "links"
  /\ \E list \in LinkLists :
       /\ links_local' = list
       /\ lastOp' = Op("links_hook", <<>>, list)
  /\ hookLog' = Append(hookLog, "links")
  /\ pc' = "payload"
  /\ UNCHANGED << builder, hal_payload, sink, sink_ops, status_local,
                  links_iter, payload_local, header_iter, declared, acc >>

\* an into_hal that consumes the resource before reading its links
IntoHalPayloadEarly ==
  /\ pc = "links"
  /\ \E p \in Payloads :
       /\ payload_local' = p
       /\ lastOp' = Op("payload_hook", <<>>, p)
  /\ hookLog' = Append(hookLog, "payload")
  /\ pc' = "new"
  /\ UNCHANGED << builder, hal_payload, sink, sink_ops, status_local,
                  links_local, links_iter, header_iter, declared, acc >>

\* line 153: let payload = self.payload()
IntoHalPayload ==
  /\ pc = "payload"
  /\ \E p \in Payloads :
       /\ payload_local' = p
       /\ lastOp' = Op("payload_hook", <<>>, p)
  /\ hookLog' = Append(hookLog, "payload")
  /\ pc' = "new"
  /\ UNCHANGED << builder, hal_payload, sink, sink_ops, status_local,
                  links_local, links_iter, header_iter, declared, acc >>

\* line 155, first call: HalRespondable::new(payload)
IntoHalNew ==
  /\ pc = "new"
  /\ payload' = new(payload_local).payload
  /\ status_code' = new(payload_local).status_code
  /\ headers' = new(payload_local).headers
  /\ links' = new(payload_local).links
  /\ lastOp' = Op("new", <<payload_local>>, "ok")
  /\ pc' = "with_status_code"
  /\ UNCHANGED << hal_payload, locals, declared, acc >>

\* the orders in which HeaderMap::iter can visit the names: the map is a hash
\* map, each name's values come together and in the order appended
RECURSIVE Flatten(_, _)
Flatten(map, names) ==
  IF names = <<>> THEN <<>>
  ELSE [i \in 1..Len(map[Head(names)]) |-> <<Head(names), map[Head(names)][i]>>]
         \o Flatten(map, Tail(names))

NameOrders ==
  { o \in [1..Cardinality(HeaderNames) -> HeaderNames] :
      \A i, j \in DOMAIN o : i # j => o[i] # o[j] }

iter(map) == { Flatten(map, o) : o \in NameOrders }

\* line 155, second call: .with_status_code(status_code); headers.iter() opens
IntoHalWithStatusCode ==
  /\ pc = "with_status_code"
  /\ SetStatusCode(status_local)
  /\ header_iter' \in iter(sink)
  /\ pc' = "for_headers"
  /\ UNCHANGED << hal_payload, sink, sink_ops, status_local, links_local, links_iter,
                  payload_local, hookLog, acc >>

\* lines 157-159: one turn of the header loop
IntoHalForHeaders ==
  /\ pc = "for_headers"
  /\ header_iter # <<>>
  /\ AddHeaderValue("with_header_value", Head(header_iter)[1],
                    Head(header_iter)[2])
  /\ header_iter' = Tail(header_iter)
  /\ UNCHANGED << hal_payload, sink, sink_ops, status_local, links_local, links_iter,
                  payload_local, hookLog, acc >>

\* the header loop ends and the loop over `links` opens
IntoHalForHeadersEnd ==
  /\ pc = "for_headers"
  /\ header_iter = <<>>
  /\ links_iter' = links_local
  /\ pc' = "for_links"
  /\ lastOp' = Op("for_headers_end", <<>>, "ok")
  /\ UNCHANGED << builder, hal_payload, sink, sink_ops, status_local,
                  links_local, payload_local, header_iter, hookLog, declared,
                  acc >>

\* lines 161-163: one turn of the link loop
IntoHalForLinks ==
  /\ pc = "for_links"
  /\ links_iter # <<>>
  /\ AddLink(Head(links_iter)[1], Head(links_iter)[2])
  /\ links_iter' = Tail(links_iter)
  /\ UNCHANGED << pc, hal_payload, sink, sink_ops, status_local, links_local,
                  payload_local, header_iter, hookLog, acc >>

\* line 165: respondable.into()
IntoHalInto ==
  /\ pc = "for_links"
  /\ links_iter = <<>>
  /\ pc' = "done"
  /\ lastOp' = Op("into", <<>>, "ok")
  /\ UNCHANGED << builder, hal_payload, locals, declared, acc >>

(* --------------------------- specification ----------------------------- *)
Init == InitDirect \/ InitIntoHal

Next ==
  \/ WithStatusCode
  \/ WithHeaderValue
  \/ WithHeader
  \/ WithLink
  \/ StatusCode
  \/ Headers
  \/ Body
  \/ IntoHalHeaders
  \/ HookWithHeaderValue
  \/ HookWithHeader
  \/ HookAppend
  \/ HookInsert
  \/ HookRemove
  \/ HookReturn
  \/ IntoHalStatusCode
  \/ IntoHalLinks
  \/ IntoHalPayload
  \/ IntoHalNew
  \/ IntoHalWithStatusCode
  \/ IntoHalForHeaders
  \/ IntoHalForHeadersEnd
  \/ IntoHalForLinks
  \/ IntoHalInto

Spec == Init /\ [][Next]_vars

(* ------------------- Links::push on arbitrary inputs ------------------- *)
PushLinks == LinkValues \cup { from("/b") }

LinksValues ==
  { Single(l) : l \in PushLinks }
    \cup { Multiple(q) : q \in SeqsUpTo(PushLinks, MaxPushLen) }

InitPush ==
  /\ pc = "push"
  /\ acc \in LinksValues
  /\ lastOp = Op("none", <<>>, "ok")
  /\ payload = NoPayload
  /\ status_code = NoStatus
  /\ headers = HeaderMapNew
  /\ links = BTreeNew
  /\ hal_payload = NoBody
  /\ sink = HeaderMapNew
  /\ sink_ops = 0
  /\ status_local = NoStatus
  /\ links_local = <<>>
  /\ links_iter = <<>>
  /\ payload_local = NoPayload
  /\ header_iter = <<>>
  /\ hookLog = <<>>
  /\ declared = <<>>

Push ==
  /\ pc = "push"
  /\ Len(acc.links) <= MaxPushLen
  /\ \E link \in PushLinks :
       /\ acc' = push(acc, link)
       /\ lastOp' = Op("push", <<acc, link>>, push(acc, link))
  /\ UNCHANGED << pc, builder, hal_payload, locals, declared >>

NextPush == Push

SpecPush == InitPush /\ [][NextPush]_vars

(* ------------------------------ properties ----------------------------- *)
IsIn(x, seq) == \E i \in DOMAIN seq : seq[i] = x

IsPrefix(p, q) == Len(p) <= Len(q) /\ \A i \in DOMAIN p : p[i] = q[i]

\* the links declared under relation r, in declaration order
DeclaredUnder(decls, r) ==
  LET under == SelectSeq(decls, LAMBDA d : d[1] = r)
  IN  [i \in 1..Len(under) |-> under[i][2]]

\* the entry relation r must have after the declarations decls
ExpectedEntry(decls, r) ==
  LET ls == DeclaredUnder(decls, r)
  IN  IF Len(ls) = 0 THEN None
      ELSE IF Len(ls) = 1 THEN Some(Single(ls[1]))
      ELSE Some(Multiple(ls))

UniqueKeys(map) ==
  \A i, j \in DOMAIN map : i # j => map[i].key # map[j].key

\* C1: after any sequence of with_link calls the relation map has at most one
\* entry per relation name, and the entry of every name r holds exactly the
\* links declared under r in declaration order: no entry for none, Single for
\* one, Multiple for two or more; names are exact-match keys ("A" is not "a"),
\* so declarations under another name never show in r's entry.
C1_RelationEntries ==
  /\ UniqueKeys(links)
  /\ \A i \in DOMAIN links : links[i].key \in RelNames
  /\ \A r \in RelNames : BTreeGet(links, r) = ExpectedEntry(declared, r)

C1_Witness ==
  /\ Len(declared) = 3
  /\ BTreeGet(links, <<97>>) = Some(Multiple(<<from("/a"), Link("/b", Some("first"))>>))
  /\ BTreeGet(links, <<65>>) = Some(Single(from("/a")))
  /\ declared[2][1] = <<65>>

\* C2: push is defined on every Links value; on Single(first) it returns
\* Multiple([first, new]); on Multiple(prev) it returns Multiple(prev ++ [new]):
\* one longer, every earlier link in its position, the new link last.
C2_Push ==
  /\ (pc = "push" /\ Len(acc.links) <= MaxPushLen) => ENABLED Push
  /\ lastOp.op = "push" =>
       LET self == lastOp.args[1]
           pushed == lastOp.args[2]
           ret  == lastOp.ret
       IN  /\ acc = ret
           /\ ret.tag = "Multiple"
           /\ self.tag = "Single" => ret.links = <<self.links[1], pushed>>
           /\ self.tag = "Multiple" =>
                /\ Len(ret.links) = Len(self.links) + 1
                /\ \A i \in 1..Len(self.links) : ret.links[i] = self.links[i]
                /\ ret.links[Len(ret.links)] = pushed

C2_Witness ==
  /\ lastOp.op = "push"
  /\ lastOp.args[1].tag = "Multiple"
  /\ Len(lastOp.args[1].links) = 2
  /\ lastOp.args[1].links[1] # lastOp.args[2]
  /\ Len(acc.links) = 3

\* C3: every builder state reached from new(payload) by with_status_code,
\* with_header_value, with_header and with_link has application/hal+json among
\* its Content-Type values; right after new(payload) that is the only header
\* entry and the status code is 200.
C3_ContentType ==
  /\ Built => IsIn(APPLICATION_HAL_JSON, headers[CONTENT_TYPE])
  /\ lastOp.op = "new" =>
       /\ headers[CONTENT_TYPE] = <<APPLICATION_HAL_JSON>>
       /\ \A n \in HeaderNames \ {CONTENT_TYPE} : headers[n] = <<>>
       /\ status_code = OK

C3_Witness ==
  /\ pc = "building"
  /\ lastOp.op = "with_header"
  /\ lastOp.ret = "ok"
  /\ Len(headers[CONTENT_TYPE]) = 3
  /\ status_code = 201
  /\ declared # <<>>

HeaderOps ==
  { "with_header_value", "with_header",
    "sink.with_header_value", "sink.with_header" }

\* C4: a with_header_value with a valid value appends: the values under the
\* name are afterwards the values before followed by the new value, and every
\* other name keeps its values; Content-Type added to a fresh builder leaves
\* application/hal+json followed by the new value.
C4_HeaderAppend ==
  [][ (lastOp'.op = "with_header_value" /\ lastOp'.ret = "ok") =>
        LET name  == lastOp'.args[1]
            value == lastOp'.args[2]
        IN  /\ headers'[name] = headers[name] \o <<value>>
            /\ \A other \in HeaderNames \ {name} :
                 headers'[other] = headers[other]
            /\ (name = CONTENT_TYPE /\ lastOp.op = "new") =>
                 headers'[name] = <<APPLICATION_HAL_JSON, value>> ]_vars

C4_Witness ==
  /\ pc = "building"
  /\ lastOp.op = "with_header_value"
  /\ lastOp.ret = "ok"
  /\ lastOp.args[1] = CONTENT_TYPE
  /\ headers[CONTENT_TYPE] = <<APPLICATION_HAL_JSON, lastOp.args[2]>>
  /\ headers["x-trace"] # <<>>

\* the relation map built by declaring decls in order on the map `map`
RECURSIVE ApplyLinks(_, _)
ApplyLinks(map, decls) ==
  IF decls = <<>> THEN map
  ELSE ApplyLinks(with_link(map, Head(decls)[1], Head(decls)[2]), Tail(decls))

\* C5: into_hal ends with a response whose status code is what status_code()
\* returned, whose headers are the default Content-Type followed, name by
\* name, by every value the headers hook left in the sink, whose relation map
\* is with_link applied to the links() sequence in order, and whose payload is
\* what payload() returned.
C5_IntoHal ==
  pc = "done" =>
    /\ status_code = status_local
    /\ payload = payload_local
    /\ headers[CONTENT_TYPE] = <<APPLICATION_HAL_JSON>> \o sink[CONTENT_TYPE]
    /\ \A n \in HeaderNames \ {CONTENT_TYPE} : headers[n] = sink[n]
    /\ links = ApplyLinks(BTreeNew, links_local)
    /\ \A r \in RelNames : BTreeGet(links, r) = ExpectedEntry(links_local, r)

C5_Witness ==
  /\ pc = "done"
  /\ status_code = 201
  /\ Len(sink["x-trace"]) = 2
  /\ sink["x-trace"][1] # sink["x-trace"][2]
  /\ Len(links_local) = 2
  /\ links_local[1][1] # links_local[2][1]

Perms(n) ==
  { f \in [1..n -> 1..n] : \A i, j \in 1..n : i # j => f[i] # f[j] }

Permute(seq, f) == [i \in 1..Len(seq) |-> seq[f[i]]]

\* the permutation keeps the declarations of each relation in their order
KeepsRelationOrder(seq, f) ==
  \A i, j \in 1..Len(seq) :
    (i < j /\ seq[f[i]][1] = seq[f[j]][1]) => f[i] < f[j]

\* C6 as claimed: declaring the same (name, link) pairs in any other order on
\* a fresh builder gives the same relation map.
C6_AnyOrder ==
  \A f \in Perms(Len(declared)) :
    ApplyLinks(BTreeNew, Permute(declared, f)) = links

\* C6 amended: declaring the same (name, link) pairs in another order that
\* keeps the declarations of each relation name in their relative order gives
\* the same relation map, with its keys in lexicographic order.
C6_OrderAcrossRelations ==
  /\ \A f \in Perms(Len(declared)) :
       KeepsRelationOrder(declared, f) =>
         ApplyLinks(BTreeNew, Permute(declared, f)) = links
  /\ \A i, j \in DOMAIN links : i < j => StrLess(links[i].key, links[j].key)

C6_Witness ==
  /\ Len(declared) = 3
  /\ declared[1][1] = <<97, 98>>
  /\ declared[2][1] = <<65>>
  /\ declared[3][1] = <<97, 98>>
  /\ declared[1][2] # declared[3][2]
  /\ Len(links) = 2
  /\ links[1].key = <<65>>

SinkKept == \A n \in HeaderNames : IsPrefix(sink[n], sink'[n])

\* C7 as claimed: whatever a holder of a Headers value does, every value the
\* Headers held is still held afterwards.
C7_SinkAppendOnly == [][SinkKept]_vars

\* C7 amended: the methods Headers itself defines, with_header_value and
\* with_header, only append, and so does every operation of the builder on its
\* own header store; through DerefMut a holder of a Headers value also reaches
\* the header map's insert and remove, which replace and remove values.
C7_OwnMethodsAppendOnly ==
  [][ /\ lastOp'.op \in { "sink.with_header_value", "sink.with_header" }
           => SinkKept
      /\ (Built /\ Built')
           => \A n \in HeaderNames : IsPrefix(headers[n], headers'[n]) ]_vars

C7_Witness ==
  /\ pc = "in_headers"
  /\ lastOp.op = "sink.with_header_value"
  /\ lastOp.ret = "ok"
  /\ Len(sink[lastOp.args[1]]) = 2
  /\ sink[lastOp.args[1]][1] # sink[lastOp.args[1]][2]

\* C8: a with_header_value / with_header whose value cannot be converted
\* panics: it returns neither an error value nor a builder or Headers, and no
\* entry is added; nothing else fails: with valid values every operation
\* completes and into_hal runs to its end.
C8_StateInv ==
  /\ pc = "panicked" =>
       /\ lastOp.op \in HeaderOps
       /\ lastOp.ret = "panic"
       /\ lastOp.args[2] \in InvalidRawValues
  /\ lastOp.op \in HeaderOps =>
       /\ lastOp.args[2] \in InvalidRawValues =>
            (pc = "panicked" /\ lastOp.ret = "panic")
       /\ lastOp.args[2] \notin InvalidRawValues =>
            (pc # "panicked" /\ lastOp.ret = "ok")
  /\ pc \in { "headers", "in_headers", "status_code", "links", "payload",
              "new", "with_status_code", "for_headers", "for_links" }
       => ENABLED Next

C8_OnlyFailure ==
  /\ []C8_StateInv
  /\ [][ (lastOp'.op \in HeaderOps /\ lastOp'.args[2] \in InvalidRawValues)
           => (headers' = headers /\ sink' = sink) ]_vars

C8_Witness ==
  /\ pc = "panicked"
  /\ lastOp.op = "with_header"
  /\ Len(headers[CONTENT_TYPE]) = 2
  /\ headers["x-trace"] = <<>>

\* C9: body() returns the builder's payload and its relation map: _links is
\* always there, empty when nothing was declared, holds for every relation
\* the links declared under it, and has its keys in lexicographic order;
\* status_code() and headers() return the builder's status code and its whole
\* header map.
C9_Body ==
  /\ pc = "finalized" =>
       /\ hal_payload.payload = payload
       /\ hal_payload.links = links
       /\ declared = <<>> => hal_payload.links = BTreeNew
       /\ \A r \in RelNames :
            BTreeGet(hal_payload.links, r) = ExpectedEntry(declared, r)
       /\ \A i, j \in DOMAIN hal_payload.links :
            i < j => StrLess(hal_payload.links[i].key, hal_payload.links[j].key)
  /\ lastOp.op = "status_code" => lastOp.ret = status_code
  /\ lastOp.op = "headers" => lastOp.ret = headers

C9_Witness ==
  /\ pc = "finalized"
  /\ hal_payload.payload = "P2"
  /\ Len(hal_payload.links) = 2
  /\ declared[1][1] = <<97, 98>>
  /\ declared[2][1] = <<65>>
  /\ hal_payload.links[1].key = <<65>>
  /\ hal_payload.links[2].value.tag = "Multiple"

HookOrder == << "headers", "status_code", "links", "payload" >>

\* C10: into_hal invokes headers(), status_code() and links() once each, all
\* of them returned before payload() is invoked; payload() is invoked once
\* and no hook after it; the builder is constructed only after payload()
\* returned.
C10_HookOrder ==
  /\ IsPrefix(hookLog, HookOrder)
  /\ pc = "in_headers" => hookLog = << "headers" >>
  /\ pc = "status_code" => hookLog = << "headers" >>
  /\ pc = "links" => hookLog = << "headers", "status_code" >>
  /\ pc = "payload" => hookLog = << "headers", "status_code", "links" >>
  /\ pc \in { "new", "with_status_code", "for_headers", "for_links", "done" }
       => hookLog = HookOrder
  /\ pc \in { "headers", "in_headers", "status_code", "links", "payload",
              "new" }
       => (payload = NoPayload /\ status_code = NoStatus)
  /\ (hookLog # <<>> /\ status_code # NoStatus) =>
       /\ hookLog = HookOrder
       /\ payload = payload_local

C10_Witness ==
  /\ pc = "done"
  /\ hookLog = HookOrder
  /\ sink_ops = 2
  /\ declared # <<>>

====
